---- MODULE Spec2Model ----
(***************************************************************************)
(* Model of plot.py: the smoothing / alignment / aggregation pipeline.     *)
(*                                                                         *)
(* Numbers are float64 values with IEEE-754 rounding (see below).          *)
(* Arrays are sequences (1-based here, 0-based in the source: an index i   *)
(* of the source is position i+1 of the sequence).                         *)
(* Optional arguments (a_range / max_range) are <<>> for None and <<v>>    *)
(* for the integer v.                                                      *)
(***************************************************************************)
EXTENDS Integers, Sequences, FiniteSets, TLC

VARIABLES
    pc,         \* position of the caller: "call"/"load", then "returned"/"plotted"/"raised"
    csv_files,  \* the run group: the parsed frame of each csv file, in order
    smoothing,  \* --smoothing
    padding,    \* --padding / the padding argument
    max_range,  \* --max_range / the a_range argument
    x, y,       \* the arrays given to smooth_reward_curve
    xs, ys,     \* the lists built by load_csv_runs / the list given to pad
    value,      \* the sentinel given to pad
    invoked,    \* per loaded file: was smooth_reward_curve called
    curve,      \* what plot_with_iqr hands to plt.plot / plt.fill_between
    ret         \* the value returned by a direct call

vars == <<pc, csv_files, smoothing, padding, max_range, x, y, xs, ys, value,
          invoked, curve, ret>>

--------------------------------------------------------------------------
(* Bounds *)

MaxLen == 4         \* longest signal given to smooth_reward_curve directly
MaxSeqs == 3        \* most sequences given to pad directly
MaxPadLen == 2      \* longest sequence given to pad directly
MaxRuns == 2        \* most csv files in a run group
MaxRunLen == 2      \* most rows in a csv file

--------------------------------------------------------------------------
(* IEEE-754 binary64 arithmetic, round to nearest, ties to even *)
(*                                                                         *)
(* A float is <<kind, sign, M, e>>: kind 0 is the number                   *)
(* (-1)^sign * M * 2^e with 2^52 <= M < 2^53 (M = 0, e = 0 for zero),       *)
(* kind 1 is +-inf, kind 2 is NaN.  M is a natural number written in base   *)
(* 2^15, least significant limb first, without leading zero limbs.         *)
(* The exponent range (overflow, subnormals) is never reached by the       *)
(* values used here, and -0.0 is written 0.0 (the two compare equal).      *)

Base == 32768           \* limb base 2^15: limb products fit the integers
LimbBits == 15
Prec == 53              \* significand bits of float64

None == <<>>

Abs(n) == IF n < 0 THEN -n ELSE n

Max2(a, b) == IF a >= b THEN a ELSE b

Min2(a, b) == IF a <= b THEN a ELSE b

\* ---- natural numbers as limb sequences

RECURSIVE BTrim(_)
BTrim(a) ==
    IF a = <<>> THEN a
    ELSE IF a[Len(a)] = 0 THEN BTrim(SubSeq(a, 1, Len(a) - 1))
    ELSE a

RECURSIVE BFromInt(_)
BFromInt(n) == IF n = 0 THEN <<>> ELSE <<n % Base>> \o BFromInt(n \div Base)

RECURSIVE BAddC(_, _, _)
BAddC(a, b, c) ==
    IF a = <<>> /\ b = <<>> THEN (IF c = 0 THEN <<>> ELSE <<c>>)
    ELSE LET p == IF a = <<>> THEN 0 ELSE Head(a)
             q == IF b = <<>> THEN 0 ELSE Head(b)
             s == p + q + c
         IN  <<s % Base>> \o BAddC(IF a = <<>> THEN a ELSE Tail(a),
                                   IF b = <<>> THEN b ELSE Tail(b),
                                   s \div Base)

BAdd(a, b) == BAddC(a, b, 0)

\* a - b - c for a >= b + c, before trimming
RECURSIVE BSubC(_, _, _)
BSubC(a, b, c) ==
    IF a = <<>> THEN <<>>
    ELSE LET q == IF b = <<>> THEN 0 ELSE Head(b)
             d == Head(a) - q - c
         IN  <<IF d < 0 THEN d + Base ELSE d>>
                \o BSubC(Tail(a), IF b = <<>> THEN b ELSE Tail(b),
                         IF d < 0 THEN 1 ELSE 0)

BSub(a, b) == BTrim(BSubC(a, b, 0))

\* -1, 0, 1 as a < b, a = b, a > b: the highest differing limb decides
RECURSIVE BCmpFrom(_, _, _)
BCmpFrom(a, b, i) ==
    IF i = 0 THEN 0
    ELSE IF a[i] < b[i] THEN -1
    ELSE IF a[i] > b[i] THEN 1
    ELSE BCmpFrom(a, b, i - 1)

BCmp(a, b) ==
    IF Len(a) < Len(b) THEN -1
    ELSE IF Len(a) > Len(b) THEN 1
    ELSE BCmpFrom(a, b, Len(a))

\* a * k + c for 0 <= k, c < Base, before trimming
RECURSIVE BMulSmallC(_, _, _)
BMulSmallC(a, k, c) ==
    IF a = <<>> THEN (IF c = 0 THEN <<>> ELSE <<c>>)
    ELSE LET s == Head(a) * k + c
         IN  <<s % Base>> \o BMulSmallC(Tail(a), k, s \div Base)

BMulSmall(a, k) == BTrim(BMulSmallC(a, k, 0))

RECURSIVE BMul(_, _)
BMul(a, b) ==
    IF a = <<>> \/ b = <<>> THEN <<>>
    ELSE BAdd(BMulSmall(a, Head(b)), BTrim(<<0>> \o BMul(a, Tail(b))))

\* <<a div k, a mod k>> for 0 < k <= Base, from the highest limb down
RECURSIVE BDivSmallFrom(_, _, _, _, _)
BDivSmallFrom(a, k, i, q, r) ==
    IF i = 0 THEN <<BTrim(q), IF r = 0 THEN <<>> ELSE <<r>>>>
    ELSE LET t == r * Base + a[i]
         IN  BDivSmallFrom(a, k, i - 1, <<t \div k>> \o q, t % k)

BDivSmall(a, k) == BDivSmallFrom(a, k, Len(a), <<>>, 0)

RECURSIVE BitLen(_)
BitLen(k) == IF k = 0 THEN 0 ELSE 1 + BitLen(k \div 2)

BBitLen(a) ==
    IF a = <<>> THEN 0 ELSE LimbBits * (Len(a) - 1) + BitLen(a[Len(a)])

BBit(a, i) == (a[i \div LimbBits + 1] \div 2 ^ (i % LimbBits)) % 2

BIsOdd(a) == a # <<>> /\ a[1] % 2 = 1

\* a * 2^n
BShl(a, n) ==
    IF a = <<>> THEN a
    ELSE [i \in 1..(n \div LimbBits) |-> 0] \o BMulSmall(a, 2 ^ (n % LimbBits))

\* a div 2^n
BShr(a, n) ==
    IF n \div LimbBits >= Len(a) THEN <<>>
    ELSE BDivSmall(SubSeq(a, n \div LimbBits + 1, Len(a)),
                   2 ^ (n % LimbBits))[1]

\* a mod 2^n
BLowBits(a, n) ==
    LET q == n \div LimbBits
    IN  IF q >= Len(a) THEN a
        ELSE BTrim(SubSeq(a, 1, q) \o <<a[q + 1] % 2 ^ (n % LimbBits)>>)

\* the number of trailing zero bits of a # 0
RECURSIVE TrailingZeros(_)
TrailingZeros(k) == IF k % 2 = 1 THEN 0 ELSE 1 + TrailingZeros(k \div 2)

RECURSIVE BTrailingZeros(_)
BTrailingZeros(a) ==
    IF Head(a) = 0 THEN LimbBits + BTrailingZeros(Tail(a))
    ELSE TrailingZeros(Head(a))

\* <<a div d, a mod d>> bit by bit, from bit i of a down
RECURSIVE BDivLongFrom(_, _, _, _, _)
BDivLongFrom(a, d, i, q, r) ==
    IF i < 0 \/ Len(q) < 0 THEN <<q, r>>
    ELSE LET r2 == BTrim(BMulSmallC(r, 2, BBit(a, i)))
             ge == BCmp(r2, d) >= 0
         IN  BDivLongFrom(a, d, i - 1,
                          BTrim(BMulSmallC(q, 2, IF ge THEN 1 ELSE 0)),
                          IF ge THEN BSub(r2, d) ELSE r2)

BDivMod(a, d) ==
    IF Len(d) = 1 THEN BDivSmall(a, d[1])
    ELSE BDivLongFrom(a, d, BBitLen(a) - 1, <<>>, <<>>)

\* ---- floats

NaN == <<2, 0, <<>>, 0>>
Zero == <<0, 0, <<>>, 0>>
Inf(s) == <<1, s, <<>>, 0>>

IsNaN(a) == a[1] = 2
IsInf(a) == a[1] = 1
IsZero(a) == a[1] = 0 /\ a[3] = <<>>

\* the float nearest to (-1)^s * N * 2^e, or to a number just above it in
\* magnitude when sticky (then N has more than Prec + 1 bits)
Round(s, N, e, sticky) ==
    LET L == BBitLen(N)
        sh == L - Prec
    IN  IF N = <<>> THEN Zero
        ELSE IF L <= Prec THEN <<0, s, BShl(N, Prec - L), e - (Prec - L)>>
        ELSE LET q == BShr(N, sh)
                 c == BCmp(BLowBits(N, sh), BShl(<<1>>, sh - 1))
                 up == c > 0 \/ (c = 0 /\ (sticky \/ BIsOdd(q)))
                 q2 == IF up THEN BAdd(q, <<1>>) ELSE q
             IN  IF BBitLen(q2) > Prec
                 THEN <<0, s, BShr(q2, 1), e + sh + 1>>
                 ELSE <<0, s, q2, e + sh>>

\* the float of an integer
Num(v) == Round(IF v < 0 THEN 1 ELSE 0, BFromInt(Abs(v)), 0, FALSE)

One == Num(1)

Two == Num(2)

FNeg(a) == IF IsNaN(a) \/ IsZero(a) THEN a ELSE <<a[1], 1 - a[2], a[3], a[4]>>

FAdd(a, b) ==
    IF IsNaN(a) \/ IsNaN(b) THEN NaN
    ELSE IF IsInf(a) THEN (IF IsInf(b) /\ a[2] # b[2] THEN NaN ELSE a)
    ELSE IF IsInf(b) THEN b
    ELSE IF IsZero(a) THEN b
    ELSE IF IsZero(b) THEN a
    ELSE LET e == Min2(a[4], b[4])
             Na == BShl(a[3], a[4] - e)
             Nb == BShl(b[3], b[4] - e)
             c == BCmp(Na, Nb)
         IN  IF a[2] = b[2] THEN Round(a[2], BAdd(Na, Nb), e, FALSE)
             ELSE IF c = 0 THEN Zero
             ELSE IF c > 0 THEN Round(a[2], BSub(Na, Nb), e, FALSE)
             ELSE Round(b[2], BSub(Nb, Na), e, FALSE)

FSub(a, b) == FAdd(a, FNeg(b))

FMul(a, b) ==
    LET s == (a[2] + b[2]) % 2
    IN  IF IsNaN(a) \/ IsNaN(b) THEN NaN
        ELSE IF IsInf(a) \/ IsInf(b)
             THEN (IF IsZero(a) \/ IsZero(b) THEN NaN ELSE Inf(s))
        ELSE IF IsZero(a) \/ IsZero(b) THEN Zero
        ELSE IF b = One THEN a
        ELSE IF a = One THEN b
        ELSE Round(s, BMul(a[3], b[3]), a[4] + b[4], FALSE)

\* x / 0 is +-inf, 0 / 0 is NaN (numpy warns and goes on)
FDiv(a, b) ==
    LET s == (a[2] + b[2]) % 2
    IN  IF IsNaN(a) \/ IsNaN(b) THEN NaN
        ELSE IF IsInf(a) THEN (IF IsInf(b) THEN NaN ELSE Inf(s))
        ELSE IF IsInf(b) THEN Zero
        ELSE IF IsZero(b) THEN (IF IsZero(a) THEN NaN ELSE Inf(s))
        ELSE IF IsZero(a) THEN Zero
        ELSE IF b = One THEN a
        ELSE LET t == BTrailingZeros(b[3])
                 d == BShr(b[3], t)
                 k == BBitLen(d) + 2
                 qr == BDivMod(BShl(a[3], k), d)
             IN  Round(s, qr[1], a[4] - k - (b[4] + t), qr[2] # <<>>)

\* a <= b for floats that are not NaN
FLeq(a, b) ==
    LET mag(u) == IF IsInf(u) THEN <<2, 0, <<>>>>
                  ELSE IF IsZero(u) THEN <<0, 0, <<>>>>
                  ELSE <<1, u[4], u[3]>>
        magLeq(u, v) ==
            LET p == mag(u)
                q == mag(v)
            IN  IF p[1] # q[1] THEN p[1] < q[1]
                ELSE IF p[1] # 1 THEN TRUE
                ELSE IF p[2] # q[2] THEN p[2] < q[2]
                ELSE BCmp(p[3], q[3]) <= 0
    IN  IF IsZero(a) /\ IsZero(b) THEN TRUE
        ELSE IF a[2] # b[2] THEN a[2] = 1
        ELSE IF a[2] = 0 THEN magLeq(a, b)
        ELSE magLeq(b, a)

\* the float nearest to n / d: what a decimal such as 0.1 = Dec(1, 10) denotes
Dec(n, d) == FDiv(Num(n), Num(d))

\* 0.0, 0.25, 0.5, 0.75, 1.0 by their number of quarters
Quarters == [t4 \in 0..4 |-> Dec(t4, 4)]

\* int(np.ceil(m / 100))
CeilDiv100(m) == -((-m) \div 100)

\* np.ones(w) and np.ones_like(y)
Ones(w) == [i \in 1..w |-> One]

--------------------------------------------------------------------------
(* np.convolve(a, v, mode='same') *)

\* acc + a[lo] * v[j-lo] + ... + a[hi] * v[j-hi] (0-based indices), added
\* one product at a time in ascending order of the index into a
RECURSIVE Dot(_, _, _, _, _, _)
Dot(a, v, j, lo, hi, acc) ==
    IF lo > hi THEN acc
    ELSE Dot(a, v, j, lo + 1, hi, FAdd(acc, FMul(a[lo + 1], v[j - lo + 1])))

\* entry j (0-based) of the full convolution: only the overlapping part
ConvFull(a, v, j) ==
    Dot(a, v, j, Max2(0, j - (Len(v) - 1)), Min2(Len(a) - 1, j), Zero)

\* 'same': the centre of the full convolution, of length max(len(a), len(v));
\* the first entry is entry (min(len) - 1) // 2 of the full convolution.
\* np.convolve swaps its arguments when the second is the longer one.
\* Both arguments are non-empty.
convolve_same(a, v) ==
    LET long == IF Len(v) > Len(a) THEN v ELSE a
        short == IF Len(v) > Len(a) THEN a ELSE v
        start == (Len(short) - 1) \div 2
    IN  [i \in 1..Len(long) |-> ConvFull(long, short, (i - 1) + start)]

\* A fixed divisor: the full kernel width at every position.
OverlapFullWidth(yy, w) == [i \in 1..Max2(Len(yy), w) |-> Num(w)]

\* The divisor of line 15: the count of in-range positions of each window.
Overlap(yy, w) == convolve_same(Ones(Len(yy)), Ones(w))

KernelWidth(xx, pad_, a_range) ==
    LET len_m == IF a_range # None THEN a_range[1] ELSE Len(xx)
        k == CeilDiv100(len_m)
    IN  pad_ * k + 1

\* smooth_reward_curve(x, y, padding, a_range).  np.ones raises ValueError
\* for a negative size, np.convolve raises ValueError for an empty argument.
smooth_reward_curve(xx, yy, pad_, a_range) ==
    LET w == KernelWidth(xx, pad_, a_range)
    IN  IF w <= 0 \/ Len(yy) = 0
        THEN [err |-> "ValueError", x |-> <<>>, y |-> <<>>]
        ELSE LET top == convolve_same(yy, Ones(w))
                 bot == Overlap(yy, w)
             IN  [err |-> "none",
                  x |-> xx,
                  y |-> [i \in 1..Len(top) |-> FDiv(top[i], bot[i])]]

--------------------------------------------------------------------------
(* Inputs of the direct calls of smooth_reward_curve *)

RECURSIVE SeqsUpTo(_, _)
SeqsUpTo(S, n) ==
    IF n = 0 THEN {<<>>}
    ELSE LET prev == SeqsUpTo(S, n - 1)
         IN  prev \cup {Append(s, e) : s \in {t \in prev : Len(t) = n - 1}, e \in S}

SmoothVals == {Num(0), Num(1), Dec(1, 10)}
Steps(n, stride) == [i \in 1..n |-> Num(i * stride)]
Paddings == {-1, 0, 1, 2, 3}
Ranges == {None, <<-150>>, <<-50>>, <<0>>, <<150>>}

InitSmooth ==
    /\ pc = "call"
    /\ y \in SeqsUpTo(SmoothVals, MaxLen)
    /\ \E n \in {0, Len(y), Len(y) + 1} : x = Steps(n, 1)
    /\ padding \in Paddings
    /\ max_range \in Ranges
    /\ csv_files = <<>> /\ smoothing = 0 /\ xs = <<>> /\ ys = <<>>
    /\ value = NaN
    /\ invoked = <<>> /\ curve = <<>> /\ ret = <<>>

SmoothCall ==
    /\ pc = "call"
    /\ ret' = smooth_reward_curve(x, y, padding, max_range)
    /\ pc' = IF ret'.err = "none" THEN "returned" ELSE "raised"
    /\ UNCHANGED <<csv_files, smoothing, padding, max_range, x, y, xs, ys,
                   value, invoked, curve>>

SpecSmooth == InitSmooth /\ [][SmoothCall]_vars

--------------------------------------------------------------------------
(* Properties of smooth_reward_curve (under SpecSmooth) *)

ValidWindow == padding >= 1 /\ (max_range = None \/ max_range[1] >= 1)

Width == KernelWidth(x, padding, max_range)

IsConstant(s) == \A i \in 1..Len(s) : s[i] = s[1]

\* C1: for a run (x, y) of length n >= 1 and a valid window, the call returns
\* and the smoothed y has length exactly n, also when the kernel is wider
\* than n.
C1_LengthPreserved ==
    (pc # "call" /\ Len(x) = Len(y) /\ Len(y) >= 1 /\ ValidWindow)
        => (pc = "returned" /\ Len(ret.y) = Len(y))

\* C4 as stated: for a constant signal y = c at least as long as the kernel
\* width, every smoothed value equals c, at the boundaries too, for odd and
\* even widths.
C4_ConstantPreserved ==
    (pc = "returned" /\ IsConstant(y) /\ Len(y) >= Width)
        => /\ Len(ret.y) = Len(y)
           /\ \A i \in 1..Len(ret.y) : ret.y[i] = y[1]

FAbs(a) == <<a[1], 0, a[3], a[4]>>

\* w * 2^-52, for w > 0
Ulps(w) == <<0, 0, Num(w)[3], Num(w)[4] - 52>>

\* C4 amended: for a constant signal y = c at least as long as the kernel
\* width w, every smoothed value equals c up to the rounding of the windowed
\* sum and of the quotient, |ysmoo[i] - c| <= w * 2^-52 * |c|, at the
\* boundaries too; it equals c exactly for c = 0 and c = 1, whose windowed
\* sums are exact.
C4_ConstantWithinRounding ==
    (pc = "returned" /\ IsConstant(y) /\ Len(y) >= Width)
        => /\ Len(ret.y) = Len(y)
           /\ \A i \in 1..Len(ret.y) :
                 /\ FLeq(FAbs(FSub(ret.y[i], y[1])),
                         FMul(FAbs(y[1]), Ulps(Width)))
                 /\ y[1] \in {Num(0), Num(1)} => ret.y[i] = y[1]

\* the constant 0.1 under a kernel of width 3: the two clipped windows give
\* 0.1, the full window gives 0.10000000000000002
C4_Witness ==
    /\ pc = "returned" /\ Width = 3
    /\ y = <<Dec(1, 10), Dec(1, 10), Dec(1, 10)>>
    /\ ret.y[1] = Dec(1, 10) /\ ret.y[3] = Dec(1, 10)
    /\ ret.y[2] # Dec(1, 10)
    /\ ret.y[2] = FDiv(FAdd(FAdd(Dec(1, 10), Dec(1, 10)), Dec(1, 10)), Num(3))

\* C6: the call fails (InvalidWindow) whenever padding < 1 or
\* reference_length <= 0, and returns no smoothed result.
C6_InvalidWindow ==
    (pc # "call" /\ (padding < 1 \/ (max_range # None /\ max_range[1] <= 0)))
        => pc = "raised"

\* C7: the call fails (LengthMismatch) whenever x and y differ in length,
\* and never returns an (x, y) pair then.
C7_LengthMismatch ==
    (pc # "call" /\ Len(x) # Len(y))
        => pc = "raised"

--------------------------------------------------------------------------
(* pad(xs, value) *)

\* np.max([len(x) for x in xs]), xs non-empty
RECURSIVE MaxLength(_)
MaxLength(seqs) ==
    IF Len(seqs) = 1 THEN Len(seqs[1])
    ELSE Max2(Len(seqs[1]), MaxLength(Tail(seqs)))

\* the sentinel block put in front of the data
PadRowLeft(row, maxlen, val) ==
    IF Len(row) >= maxlen THEN row
    ELSE [i \in 1..(maxlen - Len(row)) |-> val] \o row

\* one iteration's row: the input itself, or the input followed by
\* maxlen - len(x) copies of value
PadRow(row, maxlen, val) ==
    IF Len(row) >= maxlen THEN row
    ELSE row \o [i \in 1..(maxlen - Len(row)) |-> val]

\* the loop keeping the first index that reaches maxlen
RECURSIVE IndexLoopFirst(_, _, _, _)
IndexLoopFirst(seqs, maxlen, idx, index) ==
    IF idx >= Len(seqs) THEN index
    ELSE IndexLoopFirst(seqs, maxlen, idx + 1,
            IF Len(seqs[idx + 1]) >= maxlen /\ index = -1 THEN idx ELSE index)

\* the loop's index variable: starts at -1 and is overwritten by idx
\* (0-based) at every sequence with len(x) >= maxlen
RECURSIVE IndexLoop(_, _, _, _)
IndexLoop(seqs, maxlen, idx, index) ==
    IF idx >= Len(seqs) THEN index
    ELSE IndexLoop(seqs, maxlen, idx + 1,
            IF Len(seqs[idx + 1]) >= maxlen THEN idx ELSE index)

\* np.max of an empty list raises ValueError
pad(seqs, val) ==
    IF Len(seqs) = 0
    THEN [err |-> "ValueError", block |-> <<>>, index |-> -1, max_index |-> 0]
    ELSE LET maxlen == MaxLength(seqs)
             index == IndexLoop(seqs, maxlen, 0, -1)
         IN  [err |-> "none",
              block |-> [r \in 1..Len(seqs) |-> PadRow(seqs[r], maxlen, val)],
              index |-> index,
              max_index |-> Max2(index, 0)]

PadVals == {Num(0), Num(1)}
Sentinels == {NaN, Num(-1)}

InitPad ==
    /\ pc = "call"
    /\ xs \in SeqsUpTo(SeqsUpTo(PadVals, MaxPadLen), MaxSeqs)
    /\ value \in Sentinels
    /\ csv_files = <<>> /\ smoothing = 0 /\ padding = 0 /\ max_range = None
    /\ x = <<>> /\ y = <<>> /\ ys = <<>>
    /\ invoked = <<>> /\ curve = <<>> /\ ret = <<>>

PadCall ==
    /\ pc = "call"
    /\ ret' = pad(xs, value)
    /\ pc' = IF ret'.err = "none" THEN "returned" ELSE "raised"
    /\ UNCHANGED <<csv_files, smoothing, padding, max_range, x, y, xs, ys,
                   value, invoked, curve>>

SpecPad == InitPad /\ [][PadCall]_vars

--------------------------------------------------------------------------
(* Properties of pad (under SpecPad) *)

\* the maximum input length, stated directly
IsLongest(L) == /\ \A r \in 1..Len(xs) : Len(xs[r]) <= L
                /\ \E r \in 1..Len(xs) : Len(xs[r]) = L

\* C2 as stated: the index returned is the lowest index of a sequence of
\* maximum length (ties: the first one).
C2_FirstLongest ==
    pc = "returned" =>
        /\ ret.index \in 0..(Len(xs) - 1)
        /\ IsLongest(Len(xs[ret.index + 1]))
        /\ \A r \in 1..ret.index : Len(xs[r]) < Len(xs[ret.index + 1])

\* C2 amended: the index returned is the highest index of a sequence of
\* maximum length (ties: the last one).
C2_LastLongest ==
    pc = "returned" =>
        /\ ret.index \in 0..(Len(xs) - 1)
        /\ IsLongest(Len(xs[ret.index + 1]))
        /\ \A r \in (ret.index + 2)..Len(xs) : Len(xs[r]) < Len(xs[ret.index + 1])

\* a tie between the first and the last of three sequences
C2_Witness ==
    /\ pc = "returned" /\ Len(xs) = 3
    /\ Len(xs[1]) = 2 /\ Len(xs[2]) = 1 /\ Len(xs[3]) = 2
    /\ ret.index = 2

\* C3: the block has one row per input, in input order, each of length
\* L = the maximum input length; row r is input r verbatim followed by the
\* sentinel up to L.
C3_PaddedBlock ==
    pc = "returned" =>
        /\ Len(ret.block) = Len(xs)
        /\ \A r \in 1..Len(xs) :
              /\ IsLongest(Len(ret.block[r]))
              /\ \A j \in 1..Len(xs[r]) : ret.block[r][j] = xs[r][j]
              /\ \A j \in (Len(xs[r]) + 1)..Len(ret.block[r]) :
                    ret.block[r][j] = value

\* a short row between two longer ones, padded by two sentinels
C3_Witness ==
    /\ pc = "returned" /\ Len(xs) = 3 /\ value = NaN
    /\ xs[1] = <<Num(1), Num(0)>> /\ xs[2] = <<>> /\ xs[3] = <<Num(0), Num(1)>>
    /\ ret.block = <<xs[1], <<NaN, NaN>>, xs[3]>>

--------------------------------------------------------------------------
(* np.nanmedian / np.nanpercentile along axis 0 *)

\* column j of a rectangular block
Column(block, j) == [r \in 1..Len(block) |-> block[r][j]]

\* NaN entries read as zero instead of being dropped
NanAsZero(col) == [r \in 1..Len(col) |-> IF IsNaN(col[r]) THEN Num(0) ELSE col[r]]

\* the entries of a column that are not NaN
NonNan(col) == SelectSeq(col, LAMBDA v : ~IsNaN(v))

RECURSIVE Insert(_, _)
Insert(sorted, v) ==
    IF sorted = <<>> THEN <<v>>
    ELSE IF FLeq(v, Head(sorted)) THEN <<v>> \o sorted
    ELSE <<Head(sorted)>> \o Insert(Tail(sorted), v)

RECURSIVE Sort(_)
Sort(s) == IF s = <<>> THEN <<>> ELSE Insert(Sort(Tail(s)), Head(s))

\* np.nanmedian of one column: the sum of the two middle values (twice the
\* middle value for an odd count) of the non-NaN entries, divided by 2.0;
\* NaN for an all-NaN column
nanmedian(col) ==
    LET v == Sort(NonNan(col))
        k == Len(v)
    IN  IF k = 0 THEN NaN
        ELSE FDiv(FAdd(v[(k + 1) \div 2], v[k \div 2 + 1]), Two)

\* numpy's _lerp(a, b, t): a + (b - a) * t, and b - (b - a) * (1 - t) where
\* t >= 0.5; t is t4 / 4
lerp(a, b, t4) ==
    LET diff_b_a == FSub(b, a)
        t == Quarters[t4]
    IN  IF t4 >= 2 THEN FSub(b, FMul(diff_b_a, FSub(One, t)))
        ELSE FAdd(a, FMul(diff_b_a, t))

\* np.nanpercentile of one column for q = 25 or 75, linear interpolation
\* between the order statistics around the virtual index (k - 1) * q / 100
nanpercentile(col, q) ==
    LET v == Sort(NonNan(col))
        k == Len(v)
        lo == ((k - 1) * q) \div 100
        hi == Min2(lo + 1, k - 1)
        gamma4 == (((k - 1) * q) % 100) \div 25
    IN  IF k = 0 THEN NaN
        ELSE lerp(v[lo + 1], v[hi + 1], gamma4)

\* plot_with_iqr: the arguments of plt.plot / plt.fill_between
plot_with_iqr(xs_, ys_) ==
    LET px == pad(xs_, NaN)
        py == pad(ys_, NaN)
        L == IF Len(py.block) = 0 THEN 0 ELSE Len(py.block[1])
    IN  [x |-> px.block[px.index + 1],
         median |-> [j \in 1..L |-> nanmedian(Column(py.block, j))],
         q25 |-> [j \in 1..L |-> nanpercentile(Column(py.block, j), 25)],
         q75 |-> [j \in 1..L |-> nanpercentile(Column(py.block, j), 75)]]

--------------------------------------------------------------------------
(* main: load_csv_runs, then plot_with_iqr, for one run group *)

\* the gate written smoothing >= 1
SmoothingFromOne(s) == s >= 1

\* line 48
SmoothingEnabled(s) == s > 1

\* the run put in front of the list
PrependRun(list, run) == <<run>> \o list

\* lines 50-51
AppendRun(list, run) == Append(list, run)

RunVals == {Num(0), Num(1)}
CellVals == {Num(0), Num(1), NaN}
Smoothings == {1, 2}
RunPaddings == {1}
RunRanges == {None, <<150>>}

\* what pd.read_csv gives for the i-th file: a step and a reward column of
\* the same length; the i-th run logs every i steps
Frame(rw, i) == [step |-> Steps(Len(rw), i), reward |-> rw]

Frames(rws) == [i \in 1..Len(rws) |-> Frame(rws[i], i)]

Init ==
    /\ pc = "load"
    /\ \E rws \in SeqsUpTo(SeqsUpTo(RunVals, MaxRunLen), MaxRuns) \ {<<>>} :
          csv_files = Frames(rws)
    /\ smoothing \in Smoothings
    /\ padding \in RunPaddings
    /\ max_range \in RunRanges
    /\ xs = <<>> /\ ys = <<>> /\ invoked = <<>> /\ curve = <<>>
    /\ x = <<>> /\ y = <<>> /\ value = NaN /\ ret = <<>>

\* one iteration of the loop of load_csv_runs
LoadRun ==
    /\ pc = "load"
    /\ Len(xs) < Len(csv_files)
    /\ LET df == csv_files[Len(xs) + 1]
           on == SmoothingEnabled(smoothing)
           r == IF on
                THEN smooth_reward_curve(df.step, df.reward, padding, max_range)
                ELSE [err |-> "none", x |-> df.step, y |-> df.reward]
       IN  /\ invoked' = Append(invoked, on)
           /\ IF r.err = "none"
              THEN /\ xs' = AppendRun(xs, r.x)
                   /\ ys' = AppendRun(ys, r.y)
                   /\ pc' = pc
              ELSE /\ pc' = "raised"
                   /\ UNCHANGED <<xs, ys>>
    /\ UNCHANGED <<csv_files, smoothing, padding, max_range, x, y, value,
                   curve, ret>>

\* load_csv_runs returns and plot_with_iqr runs; plt.plot raises ValueError
\* when its x and y differ in length
PlotWithIqr ==
    /\ pc = "load"
    /\ Len(xs) = Len(csv_files)
    /\ curve' = plot_with_iqr(xs, ys)
    /\ pc' = IF Len(curve'.x) = Len(curve'.median) THEN "plotted" ELSE "raised"
    /\ UNCHANGED <<csv_files, smoothing, padding, max_range, x, y, xs, ys,
                   value, invoked, ret>>

Next == LoadRun \/ PlotWithIqr

Spec == Init /\ [][Next]_vars

\* plot_with_iqr on its own: the state at its call, for a group loaded with
\* smoothing off whose reward cells may be empty (read as NaN)
InitIqr ==
    /\ pc = "load"
    /\ \E rws \in SeqsUpTo(SeqsUpTo(CellVals, MaxRunLen), MaxRuns) \ {<<>>} :
          /\ csv_files = Frames(rws)
          /\ xs = [i \in 1..Len(rws) |-> Steps(Len(rws[i]), i)]
          /\ ys = rws
          /\ invoked = [i \in 1..Len(rws) |-> FALSE]
    /\ smoothing = 1 /\ padding = 1 /\ max_range = None
    /\ curve = <<>>
    /\ x = <<>> /\ y = <<>> /\ value = NaN /\ ret = <<>>

SpecIqr == InitIqr /\ [][PlotWithIqr]_vars

--------------------------------------------------------------------------
(* Properties of plot_with_iqr (under SpecIqr) and of the pipeline (Spec) *)

Plotted == curve # <<>>

\* the runs with a real (non-NaN) value at column j (1-based): runs shorter
\* than j have none
RealAt(j) == {r \in 1..Len(ys) : Len(ys[r]) >= j /\ ~IsNaN(ys[r][j])}

\* the real values of column j in ascending order
SortedReal(j) ==
    LET R == RealAt(j)
        k == Cardinality(R)
        f == CHOOSE g \in [1..k -> R] :
                /\ \A a, b \in 1..k : a # b => g[a] # g[b]
                /\ \A a \in 1..(k - 1) : FLeq(ys[g[a]][j], ys[g[a + 1]][j])
    IN  [i \in 1..k |-> ys[f[i]][j]]

\* the q-th percentile of an ascending sequence: the weighted mean of the
\* two order statistics around position (k - 1) * q / 100
Quantile(s, q) ==
    LET k == Len(s)
        p == (k - 1) * q
        lo == p \div 100
        w == p % 100
    IN  IF k = 0 THEN NaN
        ELSE IF w = 0 THEN s[lo + 1]
        ELSE FAdd(FMul(Quarters[(100 - w) \div 25], s[lo + 1]),
                  FMul(Quarters[w \div 25], s[lo + 2]))

\* C5: at every column j the median, 25th and 75th percentile are those of
\* the runs that have a real value at j only (padded runs are neither zero
\* nor counted); a column with no real value gives the sentinel.
C5_MaskedColumns ==
    Plotted =>
        /\ Len(curve.median) = MaxLength(ys)
        /\ Len(curve.q25) = MaxLength(ys)
        /\ Len(curve.q75) = MaxLength(ys)
        /\ \A j \in 1..MaxLength(ys) :
              /\ curve.median[j] = Quantile(SortedReal(j), 50)
              /\ curve.q25[j] = Quantile(SortedReal(j), 25)
              /\ curve.q75[j] = Quantile(SortedReal(j), 75)
              /\ RealAt(j) = {} =>
                    curve.median[j] = NaN /\ curve.q25[j] = NaN /\ curve.q75[j] = NaN

\* runs of lengths 1 and 2: the first column is reduced over both runs, the
\* last column over the length-2 run only
C5_Witness ==
    /\ Plotted
    /\ ys = <<<<Num(1)>>, <<Num(0), Num(1)>>>>
    /\ curve.median = <<Dec(1, 2), Num(1)>>
    /\ curve.q25 = <<Dec(1, 4), Num(1)>>
    /\ curve.q75 = <<Dec(3, 4), Num(1)>>

\* C8: for a group of one run with smoothing disabled, median = q25 = q75 =
\* the run's y at every position, and the x used is the run's x.
C8_SingleRun ==
    (Plotted /\ Len(csv_files) = 1 /\ smoothing <= 1)
        => /\ curve.median = csv_files[1].reward
           /\ curve.q25 = csv_files[1].reward
           /\ curve.q75 = csv_files[1].reward
           /\ curve.x = csv_files[1].step

C8_Witness ==
    /\ pc = "plotted" /\ smoothing = 1
    /\ csv_files = <<[step |-> <<Num(1), Num(2)>>, reward |-> <<Num(0), Num(1)>>]>>
    /\ curve.median = <<Num(0), Num(1)>>
    /\ curve.x = <<Num(1), Num(2)>>

\* C9: with smoothing enabled, the x-sequence handed to the renderer has the
\* same length as the median, q25 and q75 sequences, for all run lengths.
C9_EqualLengths ==
    (Plotted /\ smoothing > 1)
        => /\ Len(curve.x) = Len(curve.median)
           /\ Len(curve.x) = Len(curve.q25)
           /\ Len(curve.x) = Len(curve.q75)

\* C10: the smoother is invoked on a run exactly when smoothing > 1; when
\* smoothing <= 1 every (x, y) pair is the loaded step and reward column
\* unchanged; the lists returned have one entry per file, in file order.
C10_LoadGate ==
    /\ Len(invoked) <= Len(csv_files)
    /\ \A i \in 1..Len(invoked) : invoked[i] = (smoothing > 1)
    /\ Len(xs) = Len(ys)
    /\ pc # "raised" => Len(xs) = Len(invoked)
    /\ Plotted => Len(xs) = Len(csv_files)
    /\ \A i \in 1..Len(xs) :
          /\ xs[i] = csv_files[i].step
          /\ smoothing <= 1 => ys[i] = csv_files[i].reward

\* two different files loaded with smoothing off
C10_Witness ==
    /\ pc = "plotted" /\ smoothing = 1 /\ Len(csv_files) = 2
    /\ csv_files[1].step = <<Num(1)>> /\ csv_files[2].step = <<Num(2), Num(4)>>
    /\ invoked = <<FALSE, FALSE>>
    /\ xs = <<<<Num(1)>>, <<Num(2), Num(4)>>>>
    /\ ys = <<csv_files[1].reward, csv_files[2].reward>>

====
